---- MODULE Spec2Model ----
(***************************************************************************)
(* A model of mysql-mcp (src/main.go): the MCP tool handlers around the    *)
(* process-wide connection handle `db`, the query classifier with its two  *)
(* execution paths, and the self-updater.                                  *)
(*                                                                         *)
(* Strings the code only concatenates are TLA+ strings.  Strings the code  *)
(* inspects character by character (the SQL text) are sequences of         *)
(* one-character strings.  A display text is the sequence of the pieces    *)
(* the code appends to it (one piece per Sprintf or literal).              *)
(***************************************************************************)
EXTENDS Integers, Sequences, FiniteSets, TLC

VARIABLES
    pc,        \* position of the process: "start", "serving", "responding", the updater's
               \* steps, "exited"
    exit,      \* how the process ended: "none", "ok", "fatal"
    db,        \* the package variable db: NilDB, or the id of an opened *sql.DB
    opened,    \* how many *sql.DB handles sql.Open has created so far
    lastGood,  \* history: the handle created by the most recent connect that passed Ping
    call,      \* the tool call that ran last: its tool, its arguments, the value db had on entry
    outcome,   \* what that call returned: [isError, text, payload]
    issued,    \* the operations that call sent to the database, in order
    upd,       \* the self-updater's locals, what it printed, and its history
    fs,        \* the files the updater can touch: the executable and its ".new" sibling
    threads    \* under concurrent dispatch: the tool calls in progress, one per goroutine

vars == <<pc, exit, db, opened, lastGood, call, outcome, issued, upd, fs, threads>>

----------------------------------------------------------------------------
(* Bounds of the model *)

MaxOpen == 2      \* sql.Open calls that return a handle
MaxRows == 2      \* rows in a result set
MaxAffected == 2  \* rows a statement affects
MaxId == 2        \* the largest id an INSERT generates
MaxAssets == 2    \* assets listed in a release
MaxGoroutines == 2  \* tool calls the transport runs at the same time

----------------------------------------------------------------------------
(* Sequences and strings *)

Range(s) == {s[i] : i \in 1..Len(s)}

RECURSIVE SeqsUpTo(_, _)
SeqsUpTo(S, n) ==
    IF n = 0 THEN {<<>>}
    ELSE LET shorter == SeqsUpTo(S, n - 1)
         IN  shorter \cup {Append(s, x) : s \in {t \in shorter : Len(t) = n - 1}, x \in S}

RECURSIVE Concat(_)
Concat(ss) == IF ss = <<>> THEN <<>> ELSE Head(ss) \o Concat(Tail(ss))

RECURSIVE Spaces(_)
Spaces(n) == IF n <= 0 THEN "" ELSE " " \o Spaces(n - 1)

\* fmt "%-Ns": left-justified, padded with spaces to at least w, never truncated
PadRight(s, w) == s \o Spaces(w - Len(s))

RECURSIVE Repeat(_, _)
Repeat(s, n) == IF n <= 0 THEN "" ELSE s \o Repeat(s, n - 1)

----------------------------------------------------------------------------
(* The connection handle *)

NilDB == 0

NoPayload == [kind |-> "none"]

NoReply == [err |-> ""]

NoCall == [tool |-> "none", args |-> <<>>, dbBefore |-> NilDB, reply |-> NoReply]

NoOutcome == [isError |-> FALSE, text |-> <<>>, payload |-> NoPayload]

ErrorOutcome(msg) == [isError |-> TRUE, text |-> <<msg>>, payload |-> NoPayload]

NotConnectedMsg == "Not connected to database. Use connect tool first."

DriverErrors == {"driver: bad connection"}

\* DSNs a caller may pass; the driver rejects a malformed one when the handle is opened.
MalformedDSN == "not-a-dsn"
DSNs == {"root:pw@tcp(localhost:3306)/", MalformedDSN}

OpenFails(dsn) == dsn = MalformedDSN

----------------------------------------------------------------------------
(* Connect *)

\* Connect with "db = database" moved before the Ping.
ConnectStoresBeforePing(dbv, n, dsn, pingErr) ==
    IF OpenFails(dsn)
    THEN [db |-> dbv, opened |-> n, stored |-> FALSE, issued |-> <<>>,
          outcome |-> ErrorOutcome("Failed to open database: " \o "invalid DSN")]
    ELSE LET database == n + 1
             ping == <<[handle |-> database, op |-> "ping", sql |-> <<>>, args |-> <<>>]>>
         IN  IF pingErr # ""
             THEN [db |-> database, opened |-> database, stored |-> FALSE, issued |-> ping,
                   outcome |-> ErrorOutcome("Failed to ping database: " \o pingErr)]
             ELSE [db |-> database, opened |-> database, stored |-> TRUE, issued |-> ping,
                   outcome |-> [isError |-> FALSE,
                                text |-> <<"Successfully connected to MySQL database">>,
                                payload |-> NoPayload]]

\* What one Connect call does to db and to the handle count, and what it returns.
\* pingErr is the result of database.Ping(): "" for nil.
Connect(dbv, n, dsn, pingErr) ==
    IF OpenFails(dsn)
    THEN [db |-> dbv, opened |-> n, stored |-> FALSE, issued |-> <<>>,
          outcome |-> ErrorOutcome("Failed to open database: " \o "invalid DSN")]
    ELSE LET database == n + 1
             ping == <<[handle |-> database, op |-> "ping", sql |-> <<>>, args |-> <<>>]>>
         IN  IF pingErr # ""
             THEN [db |-> dbv, opened |-> database, stored |-> FALSE, issued |-> ping,
                   outcome |-> ErrorOutcome("Failed to ping database: " \o pingErr)]
             ELSE [db |-> database, opened |-> database, stored |-> TRUE, issued |-> ping,
                   outcome |-> [isError |-> FALSE,
                                text |-> <<"Successfully connected to MySQL database">>,
                                payload |-> NoPayload]]

----------------------------------------------------------------------------
(* What the database answers to a query of the three listing tools: an     *)
(* error from QueryContext, or rows, of which the scan of one may fail,    *)
(* and an error the iteration may end with.                                *)

TypedReplies(RowDomain) ==
    {[err |-> e, rows |-> <<>>, scanErrAt |-> 0, iterErr |-> ""] : e \in DriverErrors}
    \cup
    {r \in [err : {""}, rows : SeqsUpTo(RowDomain, MaxRows),
            scanErrAt : 0..MaxRows, iterErr : {""} \cup DriverErrors] :
        r.scanErrAt <= Len(r.rows)}

DatabaseNames == {"app", "mysql"}

Databases == {"app", ""}

Tables == {"users"}

TableInfos ==
    {[table_name |-> "users", table_type |-> "BASE TABLE", table_schema |-> "app"],
     [table_name |-> "v", table_type |-> "VIEW", table_schema |-> "app"]}

NilString == [isNil |-> TRUE, v |-> ""]

ColumnInfos ==
    {[column_name |-> "id", data_type |-> "int", is_nullable |-> "NO",
      column_default |-> NilString, extra |-> "auto_increment"],
     [column_name |-> "name", data_type |-> "varchar", is_nullable |-> "YES",
      column_default |-> [isNil |-> FALSE, v |-> "anon"], extra |-> ""]}

\* The part the three listing tools share: the nil check, the query, the scan loop,
\* rows.Err(), and the success Outcome built from the scanned records, of which text
\* is the display text.
Listing(dbv, sql, args, reply, queryMsg, scanMsg, text) ==
    IF dbv = NilDB
    THEN [issued |-> <<>>, outcome |-> ErrorOutcome(NotConnectedMsg)]
    ELSE LET sent == <<[handle |-> dbv, op |-> "query", sql |-> sql, args |-> args]>>
         IN  IF reply.err # ""
             THEN [issued |-> sent, outcome |-> ErrorOutcome(queryMsg \o reply.err)]
             ELSE IF reply.scanErrAt # 0
             THEN [issued |-> sent, outcome |-> ErrorOutcome(scanMsg \o "sql: Scan error")]
             ELSE IF reply.iterErr # ""
             THEN [issued |-> sent,
                   outcome |-> ErrorOutcome("Row iteration error: " \o reply.iterErr)]
             ELSE [issued |-> sent,
                   outcome |-> [isError |-> FALSE,
                                text |-> text,
                                payload |-> [kind |-> "list", items |-> reply.rows]]]

ListDatabasesLine(name) == "- " \o name \o "\n"

ListDatabasesText(databases) ==
    <<"Found " \o ToString(Len(databases)) \o " databases:\n">>
    \o [i \in 1..Len(databases) |-> ListDatabasesLine(databases[i])]

ListDatabases(dbv, reply) ==
    Listing(dbv, <<"SHOW DATABASES">>, <<>>, reply,
            "Failed to query databases: ", "Failed to scan database name: ",
            ListDatabasesText(reply.rows))

ListTablesLine(table) == "- " \o table.table_name \o " (" \o table.table_type \o ")\n"

ListTablesText(database, tables) ==
    <<"Found " \o ToString(Len(tables)) \o " tables in database '" \o database \o "':\n">>
    \o [i \in 1..Len(tables) |-> ListTablesLine(tables[i])]

ListTables(dbv, database, reply) ==
    LET text == ListTablesText(database, reply.rows)
    IN  Listing(dbv, <<"SELECT ... FROM information_schema.TABLES WHERE TABLE_SCHEMA = ?">>,
                <<database>>, reply,
                "Failed to query tables: ", "Failed to scan table info: ", text)

DescribeTableRow(name, type, nullable, default, extra) ==
    PadRight(name, 20) \o " " \o PadRight(type, 15) \o " " \o PadRight(nullable, 10)
    \o " " \o PadRight(default, 15) \o " " \o extra \o "\n"

DescribeTableLine(col) ==
    LET defaultVal == IF col.column_default.isNil THEN "NULL" ELSE col.column_default.v
    IN  DescribeTableRow(col.column_name, col.data_type, col.is_nullable, defaultVal, col.extra)

DescribeTableText(database, table, columns) ==
    <<"Table '" \o database \o "." \o table \o "' has " \o ToString(Len(columns))
        \o " columns:\n\n",
      DescribeTableRow("Column", "Type", "Nullable", "Default", "Extra"),
      Repeat("-", 80) \o "\n">>
    \o [i \in 1..Len(columns) |-> DescribeTableLine(columns[i])]

DescribeTable(dbv, database, table, reply) ==
    LET text == DescribeTableText(database, table, reply.rows)
    IN  Listing(dbv,
                <<"SELECT ... FROM information_schema.COLUMNS WHERE TABLE_SCHEMA = ? AND TABLE_NAME = ?">>,
                <<database, table>>, reply,
                "Failed to query table columns: ", "Failed to scan column info: ", text)

----------------------------------------------------------------------------
(* The SQL text of execute_query, as characters *)

\* the empty string
QEmpty == <<>>

\* three spaces
QBlank == <<" ", " ", " ">>

\* space, tab, newline
QBlankMixed == <<" ", "\t", "\n">>

\* select 1
QSelect1 == <<"s", "e", "l", "e", "c", "t", " ", "1">>

\* select 1, with two spaces before and one after
QSelectPadded == <<" ", " ", "s", "e", "l", "e", "c", "t", " ", "1", " ">>

\* SHOW TABLES
QShowTables == <<"S", "H", "O", "W", " ", "T", "A", "B", "L", "E", "S">>

\* explain select 1
QExplain ==
    <<"e", "x", "p", "l", "a", "i", "n", " ", "s", "e", "l", "e", "c", "t", " ", "1">>

\* Describe t
QDescribe == <<"D", "e", "s", "c", "r", "i", "b", "e", " ", "t">>

\* selected
QSelected == <<"s", "e", "l", "e", "c", "t", "e", "d">>

\* SELEC
QSel == <<"S", "E", "L", "E", "C">>

\* UPDATE t SET x=1
QUpdate ==
    <<"U", "P", "D", "A", "T", "E", " ", "t", " ", "S", "E", "T", " ", "x", "=", "1">>

\* INSERT INTO t VALUES (1)
QInsert ==
    <<"I", "N", "S", "E", "R", "T", " ", "I", "N", "T", "O", " ", "t", " ", "V", "A",
      "L", "U", "E", "S", " ", "(", "1", ")">>

\* WITH cte AS (SELECT 1) SELECT * FROM cte
QWith ==
    <<"W", "I", "T", "H", " ", "c", "t", "e", " ", "A", "S", " ", "(", "S", "E", "L",
      "E", "C", "T", " ", "1", ")", " ", "S", "E", "L", "E", "C", "T", " ", "*", " ",
      "F", "R", "O", "M", " ", "c", "t", "e">>

\* a comment line, then select 1
QComment == <<"-", "-", " ", "c", "\n", "s", "e", "l", "e", "c", "t", " ", "1">>

Queries ==
    {QEmpty, QBlank, QBlankMixed, QSelect1, QSelectPadded, QShowTables, QExplain,
     QDescribe, QSelected, QSel, QUpdate, QInsert, QWith, QComment}

WhiteSpace == {" ", "\t", "\n", "\r"}

RECURSIVE TrimLeft(_)
TrimLeft(s) == IF s # <<>> /\ Head(s) \in WhiteSpace THEN TrimLeft(Tail(s)) ELSE s

RECURSIVE TrimRight(_)
TrimRight(s) ==
    IF s # <<>> /\ s[Len(s)] \in WhiteSpace THEN TrimRight(SubSeq(s, 1, Len(s) - 1)) ELSE s

RECURSIVE TrimBlanks(_)
\* strings.Trim(s, " "): only the space character is cut
TrimBlanks(s) ==
    IF s # <<>> /\ Head(s) = " " THEN TrimBlanks(Tail(s))
    ELSE IF s # <<>> /\ s[Len(s)] = " " THEN TrimBlanks(SubSeq(s, 1, Len(s) - 1))
    ELSE s

\* strings.TrimSpace
TrimSpace(s) == TrimRight(TrimLeft(s))

LowerCase ==
    <<"a", "b", "c", "d", "e", "f", "g", "h", "i", "j", "k", "l", "m",
      "n", "o", "p", "q", "r", "s", "t", "u", "v", "w", "x", "y", "z">>

UpperCase ==
    <<"A", "B", "C", "D", "E", "F", "G", "H", "I", "J", "K", "L", "M",
      "N", "O", "P", "Q", "R", "S", "T", "U", "V", "W", "X", "Y", "Z">>

ToUpperChar(c) ==
    IF \E i \in 1..Len(LowerCase) : LowerCase[i] = c
    THEN UpperCase[CHOOSE i \in 1..Len(LowerCase) : LowerCase[i] = c]
    ELSE c

\* strings.ToUpper
ToUpper(s) == [i \in 1..Len(s) |-> ToUpperChar(s[i])]

\* strings.HasPrefix
HasPrefix(s, prefix) == Len(s) >= Len(prefix) /\ SubSeq(s, 1, Len(prefix)) = prefix

KwSelect == <<"S", "E", "L", "E", "C", "T">>
KwShow == <<"S", "H", "O", "W">>
KwDescribe == <<"D", "E", "S", "C", "R", "I", "B", "E">>
KwExplain == <<"E", "X", "P", "L", "A", "I", "N">>

\* isSelect with the prefixes tested on the query as typed, not upper-cased
IsSelectAsTyped(query) ==
    \/ HasPrefix(query, KwSelect)
    \/ HasPrefix(query, KwShow)
    \/ HasPrefix(query, KwDescribe)
    \/ HasPrefix(query, KwExplain)

\* isSelect, computed from the trimmed query
IsSelect(query) ==
    LET upperQuery == ToUpper(query)
    IN  \/ HasPrefix(upperQuery, KwSelect)
        \/ HasPrefix(upperQuery, KwShow)
        \/ HasPrefix(upperQuery, KwDescribe)
        \/ HasPrefix(upperQuery, KwExplain)

EmptyQueryMsg == "Query cannot be empty"

\* Which return statement of ExecuteQuery a call reaches.
ExecuteQueryRoute(dbv, argsQuery) ==
    IF dbv = NilDB THEN "notConnected"
    ELSE LET query == TrimSpace(argsQuery)
         IN  IF query = <<>> THEN "empty"
             ELSE IF IsSelect(query) THEN "select"
             ELSE "modify"

----------------------------------------------------------------------------
(* The read path *)

\* The values the driver hands to Scan for a cell of a result set.
NullCell == [t |-> "nil"]

Cells == {NullCell, [t |-> "bytes", v |-> "x"], [t |-> "int64", v |-> 7]}

ColumnLists == {<<"id">>, <<"id", "name">>, <<"id", "id">>}

\* Replies on which the call fails: QueryContext or rows.Columns returns an error,
\* the Scan of row scanErrAt fails, or the iteration ends with an error.  The handler
\* drops the rows it has read, so their cells are left null here.
SelectFailures ==
    {[err |-> e, colErr |-> "", columns |-> <<>>, rows |-> <<>>, scanErrAt |-> 0,
      iterErr |-> ""] : e \in DriverErrors}
    \cup
    {[err |-> "", colErr |-> e, columns |-> <<>>, rows |-> <<>>, scanErrAt |-> 0,
      iterErr |-> ""] : e \in DriverErrors}
    \cup
    UNION {
        {r \in [err : {""}, colErr : {""}, columns : {cols},
                rows : SeqsUpTo({[i \in 1..Len(cols) |-> NullCell]}, MaxRows),
                scanErrAt : 0..MaxRows, iterErr : {""} \cup DriverErrors] :
            /\ r.scanErrAt <= Len(r.rows)
            /\ r.scanErrAt # 0 \/ r.iterErr # ""}
        : cols \in ColumnLists}

\* What the database answers to QueryContext on the read path.
SelectReplies ==
    SelectFailures
    \cup
    UNION {
        [err : {""}, colErr : {""}, columns : {cols},
         rows : SeqsUpTo([1..Len(cols) -> Cells], MaxRows),
         scanErrAt : {0}, iterErr : {""}]
        : cols \in ColumnLists}

\* "if b, ok := val.([]byte); ok { row[col] = string(b) } else { row[col] = val }"
Normalize(val) == IF val.t = "bytes" THEN [t |-> "string", v |-> val.v] ELSE val

\* The map the inner loop fills for one row: row[col] is assigned for i = 0, 1, ...,
\* so the value kept for a column name is the one of the last column carrying it.
RowMap(columns, values) ==
    [col \in Range(columns) |->
        LET last == CHOOSE i \in 1..Len(columns) :
                        /\ columns[i] = col
                        /\ \A j \in (i + 1)..Len(columns) : columns[j] # col
        IN  Normalize(values[last])]

\* fmt "%v" of a value of the row map without the substitution of "NULL"
FormatValueAsIs(val) ==
    IF val.t = "nil" THEN "<nil>"
    ELSE IF val.t = "int64" THEN ToString(val.v)
    ELSE val.v

\* fmt "%v" of a value of the row map, after "if val == nil { val = "NULL" }"
FormatValue(val) ==
    IF val.t = "nil" THEN "NULL"
    ELSE IF val.t = "int64" THEN ToString(val.v)
    ELSE val.v

\* One cell of the display table and the separator that follows all but the last.
CellPieces(s, i, n) == IF i < n THEN <<PadRight(s, 20), " | ">> ELSE <<PadRight(s, 20)>>

HeaderPieces(columns) ==
    Concat([i \in 1..Len(columns) |-> CellPieces(columns[i], i, Len(columns))])
    \o <<"\n" \o Repeat("-", Len(columns) * 23) \o "\n">>

RowPieces(columns, row) ==
    Concat([i \in 1..Len(columns) |->
                CellPieces(FormatValue(row[columns[i]]), i, Len(columns))])
    \o <<"\n">>

SelectText(columns, results) ==
    <<"Query executed successfully. Returned " \o ToString(Len(results)) \o " rows:\n\n">>
    \o IF Len(results) > 0
       THEN HeaderPieces(columns)
            \o Concat([r \in 1..Len(results) |-> RowPieces(columns, results[r])])
       ELSE <<>>

executeSelectQuery(dbv, query, reply) ==
    LET sent == <<[handle |-> dbv, op |-> "query", sql |-> query, args |-> <<>>]>>
        columns == reply.columns
        results == [r \in 1..Len(reply.rows) |-> RowMap(columns, reply.rows[r])]
    IN  IF reply.err # ""
        THEN [issued |-> sent,
              outcome |-> ErrorOutcome("Failed to execute query: " \o reply.err)]
        ELSE IF reply.colErr # ""
        THEN [issued |-> sent,
              outcome |-> ErrorOutcome("Failed to get columns: " \o reply.colErr)]
        ELSE IF reply.scanErrAt # 0
        THEN [issued |-> sent,
              outcome |-> ErrorOutcome("Failed to scan row: " \o "sql: Scan error")]
        ELSE IF reply.iterErr # ""
        THEN [issued |-> sent,
              outcome |-> ErrorOutcome("Row iteration error: " \o reply.iterErr)]
        ELSE [issued |-> sent,
              outcome |-> [isError |-> FALSE,
                           text |-> SelectText(columns, results),
                           payload |-> [kind |-> "rows",
                                        rows |-> results,
                                        rowCount |-> Len(results),
                                        columns |-> columns]]]

----------------------------------------------------------------------------
(* The mutating path *)

\* What the database answers to ExecContext: an error, or a result whose
\* RowsAffected and LastInsertId each return a number or an error.
ModifyReplies ==
    {[err |-> e, raErr |-> "", rowsAffected |-> 0, liErr |-> "", lastInsertId |-> 0] :
        e \in DriverErrors}
    \cup
    [err : {""}, raErr : {""} \cup DriverErrors, rowsAffected : 0..MaxAffected,
     liErr : {""} \cup DriverErrors, lastInsertId : 0..MaxId]

NoInsertId == -1

\* executeModifyQuery with the id left at its zero value when LastInsertId fails
executeModifyQueryZeroId(dbv, query, reply) ==
    LET sent == <<[handle |-> dbv, op |-> "exec", sql |-> query, args |-> <<>>]>>
        rowsAffected == reply.rowsAffected
        lastInsertId == IF reply.liErr # "" THEN 0 ELSE reply.lastInsertId
    IN  IF reply.err # ""
        THEN [issued |-> sent,
              outcome |-> ErrorOutcome("Failed to execute query: " \o reply.err)]
        ELSE IF reply.raErr # ""
        THEN [issued |-> sent,
              outcome |-> ErrorOutcome("Failed to get rows affected: " \o reply.raErr)]
        ELSE [issued |-> sent,
              outcome |->
                [isError |-> FALSE,
                 text |-> <<"Query executed successfully.\nRows affected: "
                                \o ToString(rowsAffected)>>
                          \o IF lastInsertId # NoInsertId
                             THEN <<"\nLast insert ID: " \o ToString(lastInsertId)>>
                             ELSE <<>>,
                 payload |-> [kind |-> "modify",
                              rowsAffected |-> rowsAffected,
                              lastInsertId |-> lastInsertId]]]

executeModifyQuery(dbv, query, reply) ==
    LET sent == <<[handle |-> dbv, op |-> "exec", sql |-> query, args |-> <<>>]>>
        rowsAffected == reply.rowsAffected
        lastInsertId == IF reply.liErr # "" THEN NoInsertId ELSE reply.lastInsertId
    IN  IF reply.err # ""
        THEN [issued |-> sent,
              outcome |-> ErrorOutcome("Failed to execute query: " \o reply.err)]
        ELSE IF reply.raErr # ""
        THEN [issued |-> sent,
              outcome |-> ErrorOutcome("Failed to get rows affected: " \o reply.raErr)]
        ELSE [issued |-> sent,
              outcome |->
                [isError |-> FALSE,
                 text |-> <<"Query executed successfully.\nRows affected: "
                                \o ToString(rowsAffected)>>
                          \o IF lastInsertId # NoInsertId
                             THEN <<"\nLast insert ID: " \o ToString(lastInsertId)>>
                             ELSE <<>>,
                 payload |-> [kind |-> "modify",
                              rowsAffected |-> rowsAffected,
                              lastInsertId |-> lastInsertId]]]

\* The replies the database can give to the operation a call of ExecuteQuery sends.
ExecuteReplies(route) ==
    IF route = "select" THEN SelectReplies
    ELSE IF route = "modify" THEN ModifyReplies
    ELSE {NoReply}

\* ExecuteQuery with the emptiness check moved before the nil check
ExecuteQueryEmptyFirst(dbv, argsQuery, reply) ==
    LET query == TrimSpace(argsQuery)
    IN  IF query = <<>>
        THEN [issued |-> <<>>, outcome |-> ErrorOutcome(EmptyQueryMsg)]
        ELSE IF dbv = NilDB
        THEN [issued |-> <<>>, outcome |-> ErrorOutcome(NotConnectedMsg)]
        ELSE IF IsSelect(query)
        THEN executeSelectQuery(dbv, query, reply)
        ELSE executeModifyQuery(dbv, query, reply)

ExecuteQuery(dbv, argsQuery, reply) ==
    LET route == ExecuteQueryRoute(dbv, argsQuery)
        query == TrimSpace(argsQuery)
    IN  IF route = "notConnected"
        THEN [issued |-> <<>>, outcome |-> ErrorOutcome(NotConnectedMsg)]
        ELSE IF route = "empty"
        THEN [issued |-> <<>>, outcome |-> ErrorOutcome(EmptyQueryMsg)]
        ELSE IF route = "select"
        THEN executeSelectQuery(dbv, query, reply)
        ELSE executeModifyQuery(dbv, query, reply)

----------------------------------------------------------------------------
(* The self-updater.  Names the code searches (asset names, archive entry  *)
(* names) are sequences of tokens, cut so that every substring relation    *)
(* between the names used here is a relation between token sequences.      *)

version == "1.0.0"

Tags == {"v1.0.0", "v1.1.0", "1.0.0"}

\* the tag compared with the bare version
UpToDateBareVersion(tagName) == tagName = version

\* "if release.TagName == "v"+version"
UpToDate(tagName) == tagName = "v" \o version

GOOSes == {"linux", "darwin", "windows", "freebsd"}

GOARCHes == {"amd64", "arm"}

\* osName after the if/else-if chain on runtime.GOOS
OsName(goos) ==
    IF goos = "darwin" THEN <<"Darwin">>
    ELSE IF goos = "linux" THEN <<"Linux">>
    ELSE IF goos = "windows" THEN <<"Windows">>
    ELSE <<goos>>

\* archName after "if archName == "amd64""
ArchName(goarch) == IF goarch = "amd64" THEN <<"x86_64">> ELSE <<goarch>>

\* fmt.Sprintf("mysql-mcp_%s_%s", osName, archName)
ExpectedName(osName, archName) == <<"mysql-mcp_">> \o osName \o <<"_">> \o archName

\* strings.Contains
Contains(s, substr) ==
    \E i \in 1..(Len(s) - Len(substr) + 1) : SubSeq(s, i, i + Len(substr) - 1) = substr

AssetPool ==
    {[name |-> <<"mysql-mcp_", "Linux", "_", "x86_64", ".tar.gz">>,
      url |-> "https://releases/linux_x86_64.tar.gz"],
     [name |-> <<"mysql-mcp_", "Linux", "_", "x86_64", ".zip">>,
      url |-> "https://releases/linux_x86_64.zip"],
     [name |-> <<"mysql-mcp_", "Linux", "_", "arm", "64", ".tar.gz">>,
      url |-> "https://releases/linux_arm64.tar.gz"],
     [name |-> <<"mysql-mcp_", "Linux", "_", "x86_64", ".sbom">>,
      url |-> ""]}

Releases == [tag : Tags, assets : SeqsUpTo(AssetPool, MaxAssets)]

\* the loop over release.Assets without its break: the last match wins
SelectAssetLast(assets, expectedName) ==
    LET matches == {i \in 1..Len(assets) : Contains(assets[i].name, expectedName)}
    IN  IF matches = {} THEN ""
        ELSE assets[CHOOSE i \in matches : \A j \in matches : i >= j].url

\* The loop over release.Assets: the URL of the first asset whose name contains
\* expectedName, and "" when the loop ends without a match.
SelectAsset(assets, expectedName) ==
    LET matches == {i \in 1..Len(assets) : Contains(assets[i].name, expectedName)}
    IN  IF matches = {} THEN ""
        ELSE assets[CHOOSE i \in matches : \A j \in matches : i <= j].url

\* Files
Absent == [exists |-> FALSE, bytes |-> <<>>, mode |-> ""]

OldExecutable == [exists |-> TRUE, bytes |-> <<1>>, mode |-> "0755"]

\* a sibling left behind by an earlier update that failed while extracting
StaleSibling == [exists |-> TRUE, bytes |-> <<2, 2>>, mode |-> "0600"]

\* Downloaded bodies: the bytes of the HTTP body, and the tar archive they decompress
\* to when they are a gzip stream.
NoArchive == [ok |-> FALSE, entries |-> <<>>]

EntryReadme == [name |-> <<<<"README", ".md">>>>, typeflag |-> "reg", content |-> <<5>>]
EntryDir == [name |-> <<<<"mysql-mcp">>>>, typeflag |-> "dir", content |-> <<>>]
EntryBinary ==
    [name |-> <<<<"dist">>, <<"mysql-mcp", "_linux">>>>, typeflag |-> "reg",
     content |-> <<7, 7, 7>>]

Archives ==
    {NoArchive} \cup
    {[ok |-> TRUE, entries |-> es] :
        es \in {<<>>, <<EntryReadme>>, <<EntryReadme, EntryBinary>>, <<EntryDir, EntryBinary>>,
                <<EntryDir>>}}

GzipMagic == <<31, 139, 8>>

GzipBytes == GzipMagic \o <<0, 0, 0, 0, 0, 0, 3, 99, 98>>

RawBodies ==
    {<<>>, <<127, 69, 76>>, <<127, 69, 76, 70, 2, 1, 1, 0, 0, 0, 0, 62>>,
     <<31, 139, 7, 0, 0, 0, 0, 0, 0, 3, 42>>}

Bodies ==
    {[bytes |-> b, archive |-> NoArchive] : b \in RawBodies}
    \cup {[bytes |-> GzipBytes, archive |-> a] : a \in Archives}

\* gzip.NewReader reads the 10-byte header through a bufio.Reader of 4096 bytes.
GzipHeaderLen == 10
BufioSize == 4096

Min(a, b) == IF a < b THEN a ELSE b

\* How many bytes of src gzip.NewReader has taken when it returns: it wraps src in a
\* bufio.Reader and reads until it holds the header, each read of src filling the
\* buffer with what the connection has ready, so the count depends on how the body
\* arrives: at least the header (or all of a shorter body), at most one buffer beyond
\* the last byte short of the header.
HeaderReadCounts(n) ==
    {c \in 0..n : c >= Min(n, GzipHeaderLen) /\ c <= GzipHeaderLen - 1 + BufioSize}

\* gzip.NewReader returns an error unless the header is whole and carries the magic.
GzipHeaderOK(bytes) ==
    Len(bytes) >= GzipHeaderLen /\ SubSeq(bytes, 1, Len(GzipMagic)) = GzipMagic

\* filepath.Base of a name given as its path components
Base(name) == name[Len(name)]

IsBinaryEntry(header) ==
    HasPrefix(Base(header.name), <<"mysql-mcp">>) /\ header.typeflag = "reg"

\* extractBinary(src, destPath): dest is the file at destPath before the call,
\* createErr the result of os.Create, taken the count of bytes gzip.NewReader read.
extractBinary(src, dest, createErr, taken) ==
    IF createErr # ""
    THEN [file |-> dest, err |-> <<createErr>>]
    ELSE LET destFile == [exists |-> TRUE, bytes |-> <<>>,
                          mode |-> IF dest.exists THEN dest.mode ELSE "0644"]
             found == {i \in 1..Len(src.archive.entries) :
                            IsBinaryEntry(src.archive.entries[i])}
         IN  IF ~GzipHeaderOK(src.bytes)
             THEN \* io.Copy(destFile, src): what is left of src
                  [file |-> [destFile EXCEPT
                                !.bytes = SubSeq(src.bytes, taken + 1, Len(src.bytes))],
                   err |-> <<>>]
             ELSE IF ~src.archive.ok
             THEN [file |-> destFile, err |-> <<"unexpected EOF">>]
             ELSE IF found = {}
             THEN [file |-> destFile, err |-> <<"binary not found in archive">>]
             ELSE [file |-> [destFile EXCEPT
                                !.bytes = src.archive.entries[
                                    CHOOSE i \in found : \A j \in found : i <= j].content],
                   err |-> <<>>]

\* os.Chmod failing without the os.Remove(tempFile)
MarkExecutableNoCleanup(files, chmodErr) ==
    IF chmodErr # ""
    THEN [fs |-> files, err |-> <<"failed to make new binary executable: ", chmodErr>>]
    ELSE [fs |-> [files EXCEPT !.new.mode = "0755"], err |-> <<>>]

\* os.Chmod(tempFile, 0755) and the cleanup when it fails
MarkExecutable(files, chmodErr) ==
    IF chmodErr # ""
    THEN [fs |-> [files EXCEPT !.new = Absent],
          err |-> <<"failed to make new binary executable: ", chmodErr>>]
    ELSE [fs |-> [files EXCEPT !.new.mode = "0755"], err |-> <<>>]

\* os.Rename(tempFile, currentExe) and the cleanup when it fails
ReplaceBinary(files, renameErr) ==
    IF renameErr # ""
    THEN [fs |-> [files EXCEPT !.new = Absent],
          err |-> <<"failed to replace binary: ", renameErr>>]
    ELSE [fs |-> [exe |-> files.new, new |-> Absent], err |-> <<>>]

FileErrors == {"permission denied"}

----------------------------------------------------------------------------
(* The state machine *)

NoUpdate ==
    [release |-> [tag |-> "", assets |-> <<>>],
     osName |-> <<>>, archName |-> <<>>, downloadURL |-> "",
     body |-> [bytes |-> <<>>, archive |-> NoArchive],
     err |-> <<>>,        \* the error updateSelf returned
     out |-> <<>>,        \* the lines it printed
     steps |-> <<>>,      \* history: the steps it entered
     fetched |-> <<>>,    \* history: the asset URLs it requested
     fs0 |-> [exe |-> Absent, new |-> Absent]]  \* history: the files when it started

Init ==
    /\ pc = "start"
    /\ exit = "none"
    /\ db = NilDB
    /\ opened = 0
    /\ lastGood = NilDB
    /\ call = NoCall
    /\ outcome = NoOutcome
    /\ issued = <<>>
    /\ upd = NoUpdate
    /\ fs = [exe |-> OldExecutable, new |-> Absent]
    /\ threads = <<>>

serverVars == <<db, opened, lastGood, call, outcome, issued>>

\* main with -version
MainVersion ==
    /\ pc = "start"
    /\ pc' = "exited"
    /\ exit' = "ok"
    /\ UNCHANGED <<serverVars, upd, fs>>
    /\ UNCHANGED threads

\* main with -update: updateSelf starts.  Only this mode looks at the files, so it is
\* here that the model fixes whether an earlier update left a sibling behind.
MainUpdate ==
    /\ pc = "start"
    /\ pc' = "checking"
    /\ fs' \in {fs, [fs EXCEPT !.new = StaleSibling]}
    /\ upd' = [upd EXCEPT !.fs0 = fs', !.out = <<"Checking for updates...">>]
    /\ UNCHANGED <<exit, serverVars>>
    /\ UNCHANGED threads

\* main in serving mode: the tools are registered, the DSN of -dsn, if any, is
\* connected, and the server runs.  A failure to connect is fatal.
MainServe ==
    /\ pc = "start"
    /\ \E dsn \in {""} \cup DSNs, pingErr \in {""} \cup DriverErrors :
        IF dsn = ""
        THEN /\ pc' = "serving"
             /\ UNCHANGED <<exit, serverVars>>
        ELSE IF OpenFails(dsn)
        THEN /\ pc' = "exited"
             /\ exit' = "fatal"
             /\ UNCHANGED serverVars
        ELSE LET database == opened + 1
             IN  /\ opened' = database
                 /\ issued' = <<[handle |-> database, op |-> "ping", sql |-> <<>>,
                                 args |-> <<>>]>>
                 /\ IF pingErr # ""
                    THEN /\ pc' = "exited"
                         /\ exit' = "fatal"
                         /\ UNCHANGED <<db, lastGood>>
                    ELSE /\ pc' = "serving"
                         /\ db' = database
                         /\ lastGood' = database
                         /\ UNCHANGED exit
                 /\ UNCHANGED <<call, outcome>>
    /\ UNCHANGED <<upd, fs>>
    /\ UNCHANGED threads

\* server.Run returns: the stream closed
ServerStops ==
    /\ pc = "serving"
    /\ pc' = "exited"
    /\ exit' = "ok"
    /\ UNCHANGED <<serverVars, upd, fs>>
    /\ UNCHANGED threads

CallConnect ==
    /\ pc = "serving"
    /\ opened < MaxOpen
    /\ \E dsn \in DSNs, pingErr \in {""} \cup DriverErrors :
        LET r == Connect(db, opened, dsn, pingErr)
        IN  /\ db' = r.db
            /\ opened' = r.opened
            /\ lastGood' = IF r.stored THEN r.opened ELSE lastGood
            /\ call' = [tool |-> "connect", args |-> <<dsn>>, dbBefore |-> db,
                        reply |-> [err |-> pingErr]]
            /\ outcome' = r.outcome
            /\ issued' = r.issued
    /\ pc' = "responding"
    /\ UNCHANGED <<exit, upd, fs>>
    /\ UNCHANGED threads

\* A tool call that reads db and leaves it alone.
Returns(tool, args, reply, r) ==
    /\ call' = [tool |-> tool, args |-> args, dbBefore |-> db, reply |-> reply]
    /\ outcome' = r.outcome
    /\ issued' = r.issued
    /\ pc' = "responding"
    /\ UNCHANGED <<exit, db, opened, lastGood, upd, fs>>
    /\ UNCHANGED threads

\* The handler has returned: the transport writes the response and the server
\* waits for the next request.
Respond ==
    /\ pc = "responding"
    /\ pc' = "serving"
    /\ call' = NoCall
    /\ outcome' = NoOutcome
    /\ issued' = <<>>
    /\ UNCHANGED <<exit, db, opened, lastGood, upd, fs>>
    /\ UNCHANGED threads

CallListDatabases ==
    /\ pc = "serving"
    /\ \E reply \in TypedReplies(DatabaseNames) :
        Returns("list_databases", <<>>, reply, ListDatabases(db, reply))

CallListTables ==
    /\ pc = "serving"
    /\ \E database \in Databases, reply \in TypedReplies(TableInfos) :
        Returns("list_tables", <<database>>, reply, ListTables(db, database, reply))

CallDescribeTable ==
    /\ pc = "serving"
    /\ \E database \in Databases, table \in Tables, reply \in TypedReplies(ColumnInfos) :
        Returns("describe_table", <<database, table>>, reply,
                DescribeTable(db, database, table, reply))

CallExecuteQuery ==
    /\ pc = "serving"
    /\ \E query \in Queries :
        \E reply \in ExecuteReplies(ExecuteQueryRoute(db, query)) :
            Returns("execute_query", <<query>>, reply, ExecuteQuery(db, query, reply))

\* updateSelf returns an error: main logs it and exits non-zero
Fails(step, err) ==
    /\ pc' = "exited"
    /\ exit' = "fatal"
    /\ upd' = [upd EXCEPT !.err = err, !.steps = Append(@, step)]

ReleaseResponses ==
    {[kind |-> k, release |-> NoUpdate.release] : k \in {"neterr", "status", "decode"}}
    \cup {[kind |-> "ok", release |-> r] : r \in Releases}

\* updateSelf, from the request for the latest release to the comparison of its tag
UpdCheck ==
    /\ pc = "checking"
    /\ \E resp \in ReleaseResponses :
        IF resp.kind = "neterr"
        THEN Fails("checking", <<"failed to check for updates: ", "connection refused">>)
        ELSE IF resp.kind = "status"
        THEN Fails("checking", <<"failed to get release info: HTTP ", "404">>)
        ELSE IF resp.kind = "decode"
        THEN Fails("checking", <<"failed to parse release info: ", "unexpected EOF">>)
        ELSE IF UpToDate(resp.release.tag)
        THEN /\ pc' = "exited"
             /\ exit' = "ok"
             /\ upd' = [upd EXCEPT !.release = resp.release,
                                   !.steps = Append(@, "checking"),
                                   !.out = Append(@, "Already up to date (version "
                                                      \o version \o ")")]
        ELSE /\ pc' = "selecting"
             /\ upd' = [upd EXCEPT !.release = resp.release,
                                   !.steps = Append(@, "checking"),
                                   !.out = Append(@, "Found newer version: "
                                                      \o resp.release.tag
                                                      \o " (current: " \o version \o ")")]
             /\ UNCHANGED exit
    /\ UNCHANGED <<serverVars, fs>>
    /\ UNCHANGED threads

\* the choice of the asset for this OS and architecture
UpdSelect ==
    /\ pc = "selecting"
    /\ \E goos \in GOOSes, goarch \in GOARCHes :
        LET osName == OsName(goos)
            archName == ArchName(goarch)
            downloadURL == SelectAsset(upd.release.assets, ExpectedName(osName, archName))
        IN  IF downloadURL = ""
            THEN /\ pc' = "exited"
                 /\ exit' = "fatal"
                 /\ upd' = [upd EXCEPT !.osName = osName, !.archName = archName,
                                       !.steps = Append(@, "selecting"),
                                       !.err = <<"no compatible release found for ">>
                                               \o osName \o <<" ">> \o archName]
            ELSE /\ pc' = "downloading"
                 /\ upd' = [upd EXCEPT !.osName = osName, !.archName = archName,
                                       !.downloadURL = downloadURL,
                                       !.steps = Append(@, "selecting"),
                                       !.out = Append(@, "Downloading " \o downloadURL
                                                          \o "...")]
                 /\ UNCHANGED exit
    /\ UNCHANGED <<serverVars, fs>>
    /\ UNCHANGED threads

DownloadResponses ==
    {[kind |-> k, body |-> NoUpdate.body] : k \in {"neterr", "status"}}
    \cup {[kind |-> "ok", body |-> b] : b \in Bodies}

\* the request for the asset, and os.Executable()
UpdDownload ==
    /\ pc = "downloading"
    /\ \E resp \in DownloadResponses, exeErr \in {""} \cup FileErrors :
        LET asked == [upd EXCEPT !.fetched = Append(@, upd.downloadURL)]
        IN  IF resp.kind = "neterr"
            THEN /\ pc' = "exited"
                 /\ exit' = "fatal"
                 /\ upd' = [asked EXCEPT !.steps = Append(@, "downloading"),
                                !.err = <<"failed to download update: ", "connection refused">>]
            ELSE IF resp.kind = "status"
            THEN /\ pc' = "exited"
                 /\ exit' = "fatal"
                 /\ upd' = [asked EXCEPT !.steps = Append(@, "downloading"),
                                !.err = <<"failed to download update: HTTP ", "404">>]
            ELSE IF exeErr # ""
            THEN /\ pc' = "exited"
                 /\ exit' = "fatal"
                 /\ upd' = [asked EXCEPT !.steps = Append(@, "downloading"),
                                !.err = <<"failed to get current executable path: ", exeErr>>]
            ELSE /\ pc' = "extracting"
                 /\ upd' = [asked EXCEPT !.steps = Append(@, "downloading"),
                                         !.body = resp.body]
                 /\ UNCHANGED exit
    /\ UNCHANGED <<serverVars, fs>>
    /\ UNCHANGED threads

\* extractBinary(resp.Body, currentExe + ".new")
UpdExtract ==
    /\ pc = "extracting"
    /\ \E createErr \in {""} \cup FileErrors,
          taken \in HeaderReadCounts(Len(upd.body.bytes)) :
        LET r == extractBinary(upd.body, fs.new, createErr, taken)
        IN  /\ fs' = [fs EXCEPT !.new = r.file]
            /\ IF r.err # <<>>
               THEN Fails("extracting", <<"failed to extract update: ">> \o r.err)
               ELSE /\ pc' = "chmod"
                    /\ upd' = [upd EXCEPT !.steps = Append(@, "extracting")]
                    /\ UNCHANGED exit
    /\ UNCHANGED serverVars
    /\ UNCHANGED threads

\* os.Chmod(tempFile, 0755)
UpdChmod ==
    /\ pc = "chmod"
    /\ \E chmodErr \in {""} \cup FileErrors :
        LET r == MarkExecutable(fs, chmodErr)
        IN  /\ fs' = r.fs
            /\ IF r.err # <<>>
               THEN Fails("chmod", r.err)
               ELSE /\ pc' = "replacing"
                    /\ upd' = [upd EXCEPT !.steps = Append(@, "chmod")]
                    /\ UNCHANGED exit
    /\ UNCHANGED serverVars
    /\ UNCHANGED threads

\* os.Rename(tempFile, currentExe)
UpdRename ==
    /\ pc = "replacing"
    /\ \E renameErr \in {""} \cup FileErrors :
        LET r == ReplaceBinary(fs, renameErr)
        IN  /\ fs' = r.fs
            /\ IF r.err # <<>>
               THEN Fails("replacing", r.err)
               ELSE /\ pc' = "exited"
                    /\ exit' = "ok"
                    /\ upd' = [upd EXCEPT
                                !.steps = Append(@, "replacing"),
                                !.out = @ \o <<"Successfully updated to version "
                                                    \o upd.release.tag,
                                               "Please restart the application to use the new version.">>]
    /\ UNCHANGED serverVars
    /\ UNCHANGED threads

Next ==
    \/ MainVersion
    \/ MainUpdate
    \/ MainServe
    \/ ServerStops
    \/ CallConnect
    \/ CallListDatabases
    \/ CallListTables
    \/ CallDescribeTable
    \/ CallExecuteQuery
    \/ Respond
    \/ UpdCheck
    \/ UpdSelect
    \/ UpdDownload
    \/ UpdExtract
    \/ UpdChmod
    \/ UpdRename

Spec == Init /\ [][Next]_vars

----------------------------------------------------------------------------
(* Properties *)

ReadsDb == {"list_databases", "list_tables", "describe_table", "execute_query"}

Responding(tool) == pc = "responding" /\ call.tool = tool

\* The query argument of a call consists of whitespace only (or of nothing).
BlankQuery(query) == \A i \in 1..Len(query) : query[i] \in {" ", "\t", "\n", "\r"}

\* C1: while no connection handle is stored, list_databases, list_tables,
\* describe_table and execute_query, whatever their parameters, return an Outcome
\* with the error flag set, the fixed "not connected" text and no payload, and send
\* nothing to the database.
C1_NotConnectedGate ==
    (pc = "responding" /\ call.tool \in ReadsDb /\ db = NilDB) =>
        /\ outcome.isError
        /\ outcome.text = <<"Not connected to database. Use connect tool first.">>
        /\ outcome.payload = NoPayload
        /\ issued = <<>>

C1_Witness ==
    /\ Responding("execute_query")
    /\ db = NilDB
    /\ call.args = <<QBlank>>
    /\ outcome.isError

\* C2: a Connect call that fails (the open or the ping) returns an error Outcome
\* without payload and leaves the stored handle as it was; a Connect call that
\* succeeds stores the handle it opened; so the stored handle is always the one of
\* the most recent successful connect, and once a handle is stored db is never nil
\* again.
C2_FailedConnectKeepsHandle ==
    /\ [](db = lastGood)
    /\ [][(pc = "serving" /\ pc' = "responding" /\ call'.tool = "connect") =>
            IF outcome'.isError
            THEN db' = db /\ outcome'.payload = NoPayload
            ELSE db' = opened' /\ opened' = opened + 1]_vars
    /\ [][db # NilDB => db' # NilDB]_vars

C2_Witness ==
    /\ Responding("connect")
    /\ outcome.isError
    /\ issued # <<>>
    /\ call.dbBefore # NilDB
    /\ db = call.dbBefore

\* C3 as stated: execute_query with an empty or all-whitespace query returns the
\* error "query cannot be empty" and sends nothing to the database, whatever the
\* connection state (the message is compared without regard to its first letter's
\* case).
C3_Original ==
    (Responding("execute_query") /\ BlankQuery(call.args[1])) =>
        /\ outcome.isError
        /\ outcome.text \in {<<"query cannot be empty">>, <<"Query cannot be empty">>}
        /\ issued = <<>>

\* C3 as amended: when a connection handle is stored, execute_query with an empty or
\* all-whitespace query returns the error "Query cannot be empty" without payload
\* and sends nothing to the database; when none is stored the call returns the
\* "not connected" error instead.
C3_EmptyQueryWhenConnected ==
    (Responding("execute_query") /\ BlankQuery(call.args[1])) =>
        /\ outcome.isError
        /\ outcome.payload = NoPayload
        /\ issued = <<>>
        /\ db = call.dbBefore
        /\ outcome.text = IF db # NilDB
                          THEN <<"Query cannot be empty">>
                          ELSE <<"Not connected to database. Use connect tool first.">>

C3_Witness ==
    /\ Responding("execute_query")
    /\ db # NilDB
    /\ call.args = <<QBlankMixed>>
    /\ outcome.text = <<"Query cannot be empty">>

\* The trimmed, upper-cased query starts with one of the four read keywords.
StartsWithReadKeyword(query) ==
    \E kw \in {KwSelect, KwShow, KwDescribe, KwExplain} :
        HasPrefix(ToUpper(TrimSpace(query)), kw)

\* C4: for a non-empty query on a connected server, execute_query sends exactly one
\* operation to the stored handle, carrying the trimmed query: a read (QueryContext)
\* if and only if the trimmed, upper-cased query starts with SELECT, SHOW, DESCRIBE
\* or EXPLAIN, and an execution (ExecContext) otherwise.  "select 1", "SHOW TABLES"
\* and "explain select 1" are read; "UPDATE ...", "INSERT ..." and "WITH cte AS
\* (SELECT 1) ..." are executed.  A payload, when there is one, is of the path's kind.
C4_Classifier ==
    (Responding("execute_query") /\ db # NilDB /\ ~BlankQuery(call.args[1])) =>
        LET query == call.args[1]
        IN  /\ Len(issued) = 1
            /\ issued[1].handle = db
            /\ issued[1].sql = TrimSpace(query)
            /\ issued[1].op \in {"query", "exec"}
            /\ issued[1].op = "query" <=> StartsWithReadKeyword(query)
            /\ query \in {QSelect1, QShowTables, QExplain} => issued[1].op = "query"
            /\ query \in {QUpdate, QInsert, QWith} => issued[1].op = "exec"
            /\ outcome.payload.kind \in
                    {"none", IF issued[1].op = "query" THEN "rows" ELSE "modify"}

C4_Witness ==
    /\ Responding("execute_query")
    /\ db # NilDB
    /\ call.args = <<QWith>>
    /\ issued[1].op = "exec"
    /\ outcome.payload.kind = "modify"

\* The piece of the display text that holds cell i of row r of a table of k columns:
\* the first piece is the summary line, the header takes 2k pieces with its rule, and
\* each row takes 2k pieces with its line end.
CellPiece(r, i, k) == 2 * k * r + 2 * i

Distinct(columns) ==
    \A i, j \in 1..Len(columns) : columns[i] = columns[j] => i = j

\* What C5 says of the cells of a result set of the read path.
CellsProjected(reply) ==
    \A r \in 1..Len(reply.rows), i \in 1..Len(reply.columns) :
        LET cell == reply.rows[r][i]
            shown == outcome.payload.rows[r][reply.columns[i]]
        IN  /\ cell = NullCell =>
                /\ shown = NullCell
                /\ outcome.text[CellPiece(r, i, Len(reply.columns))]
                        = "NULL                "
            /\ cell.t = "bytes" => shown = [t |-> "string", v |-> cell.v]

\* What C5 says of the shape of the payload of the read path.
ShapeProjected(reply) ==
    /\ outcome.payload.rowCount = Len(reply.rows)
    /\ outcome.payload.columns = reply.columns
    /\ Len(outcome.payload.rows) = Len(reply.rows)

ReadSucceeded ==
    /\ Responding("execute_query")
    /\ ~outcome.isError
    /\ outcome.payload.kind = "rows"

\* C5 as stated: on the read path, for a result set of N rows and K columns read
\* without driver error, the payload has rowCount = N, the K columns in projection
\* order and N rows; every null cell is the null sentinel in its payload row and the
\* text NULL in the display text, and every byte-sequence cell is a string in the
\* payload.
C5_Original ==
    ReadSucceeded => ShapeProjected(call.reply) /\ CellsProjected(call.reply)

\* C5 as amended: the shape (rowCount = N, the K columns in order, N rows) holds for
\* every result set; the statement about the cells holds for result sets whose
\* column names are pairwise distinct.
C5_ReadProjection ==
    ReadSucceeded =>
        /\ ShapeProjected(call.reply)
        /\ Distinct(call.reply.columns) => CellsProjected(call.reply)

C5_Witness ==
    /\ ReadSucceeded
    /\ call.reply.columns = <<"id", "name">>
    /\ Len(call.reply.rows) = 2
    /\ call.reply.rows[2][1] = NullCell
    /\ call.reply.rows[2][2].t = "bytes"
    /\ call.reply.rows[1][2] = NullCell

\* C6: on the mutating path, for a statement that ran and affected R rows: if
\* fetching rows-affected fails the call is an error Outcome without payload;
\* otherwise the payload has rowsAffected = R, and if no generated id is available
\* (LastInsertId fails) lastInsertId = -1 and the display text is the rows-affected
\* piece alone, while if an id I was generated lastInsertId = I and the display text
\* ends with "Last insert ID: I".  A failing LastInsertId never makes the call an
\* error.
C6_ModifyPath ==
    (Responding("execute_query") /\ issued # <<>> /\ issued[1].op = "exec"
        /\ call.reply.err = "") =>
        LET reply == call.reply
            rowsText == "Query executed successfully.\nRows affected: "
                            \o ToString(reply.rowsAffected)
        IN  IF reply.raErr # ""
            THEN outcome.isError /\ outcome.payload = NoPayload
            ELSE /\ ~outcome.isError
                 /\ outcome.payload.rowsAffected = reply.rowsAffected
                 /\ reply.liErr # "" =>
                        /\ outcome.payload.lastInsertId = -1
                        /\ outcome.text = <<rowsText>>
                 /\ reply.liErr = "" =>
                        /\ outcome.payload.lastInsertId = reply.lastInsertId
                        /\ outcome.text =
                            <<rowsText, "\nLast insert ID: " \o ToString(reply.lastInsertId)>>

C6_Witness ==
    /\ Responding("execute_query")
    /\ call.args = <<QUpdate>>
    /\ db # NilDB
    /\ call.reply.err = "" /\ call.reply.raErr = "" /\ call.reply.liErr # ""
    /\ call.reply.rowsAffected = 2
    /\ outcome.payload.lastInsertId = -1

\* C7: when the release fetched by the updater is tagged "v" followed by the running
\* version, the update ends successfully right after the check, having printed
\* "Already up to date": it never enters the later steps, requests no asset and
\* leaves every file as it was.
C7_UpToDate ==
    upd.release.tag = "v1.0.0" =>
        /\ pc = "exited"
        /\ exit = "ok"
        /\ upd.err = <<>>
        /\ upd.steps = <<"checking">>
        /\ upd.fetched = <<>>
        /\ fs = upd.fs0
        /\ upd.out = <<"Checking for updates...", "Already up to date (version 1.0.0)">>

C7_Witness ==
    /\ upd.release.tag = "v1.0.0"
    /\ Len(upd.release.assets) = 2
    /\ pc = "exited"
    /\ fs.new = StaleSibling

\* The assets of the fetched release whose name contains the expected fragment.
Matching ==
    {i \in 1..Len(upd.release.assets) :
        Contains(upd.release.assets[i].name, ExpectedName(upd.osName, upd.archName))}

Selected == Len(upd.steps) >= 2 /\ upd.steps[2] = "selecting"

\* C8: when the tag differs from the running version and no asset name contains the
\* fragment built from the normalized OS and architecture names, the update fails
\* with the error naming that OS and architecture, having requested no asset and
\* with every file as it was; and an asset that is requested is the first in list
\* order whose name contains the fragment.
C8_AssetSelection ==
    /\ (Selected /\ Matching = {}) =>
            /\ pc = "exited"
            /\ exit = "fatal"
            /\ upd.err = <<"no compatible release found for ">> \o upd.osName
                            \o <<" ">> \o upd.archName
            /\ upd.steps = <<"checking", "selecting">>
            /\ upd.fetched = <<>>
            /\ fs = upd.fs0
    /\ upd.fetched # <<>> =>
            /\ Matching # {}
            /\ \E i \in Matching :
                /\ \A j \in Matching : i <= j
                /\ upd.fetched = <<upd.release.assets[i].url>>

C8_Witness ==
    /\ Selected
    /\ Matching = {}
    /\ Len(upd.release.assets) = 2
    /\ upd.osName = <<"Darwin">>
    /\ exit = "fatal"

\* C9: when the downloaded bytes are not a gzip stream, the extraction writes to the
\* sibling file exactly the downloaded bytes.
C9_RawCopyIsWhole ==
    (pc = "chmod" /\ ~GzipHeaderOK(upd.body.bytes)) => fs.new.bytes = upd.body.bytes

LastStep == IF upd.steps = <<>> THEN "" ELSE upd.steps[Len(upd.steps)]

\* C10: the executable is overwritten only by the final rename, taken after the
\* download, the extraction and the chmod have succeeded, and it receives the
\* sibling's content; when the chmod or the rename fails the update ends in an error
\* with the sibling deleted and the executable as it was.
C10_ReplaceOnlyByRename ==
    /\ [][fs'.exe # fs.exe =>
            /\ pc = "replacing" /\ pc' = "exited" /\ exit' = "ok"
            /\ upd.steps = <<"checking", "selecting", "downloading", "extracting", "chmod">>
            /\ fs.new.exists /\ fs.new.mode = "0755"
            /\ fs'.exe = fs.new]_vars
    /\ []((pc = "exited" /\ exit = "fatal" /\ LastStep \in {"chmod", "replacing"}) =>
            /\ upd.err # <<>>
            /\ fs.new = Absent
            /\ fs.exe = upd.fs0.exe)

C10_Witness ==
    /\ pc = "exited"
    /\ exit = "fatal"
    /\ LastStep = "replacing"
    /\ upd.fs0.new = StaleSibling
    /\ fs.new = Absent

----------------------------------------------------------------------------
(* Concurrent dispatch.  The transport runs each tool call on a goroutine  *)
(* of its own.  A handler is cut at its accesses to the package variable   *)
(* db, the only memory the calls share: the code takes no lock, so between *)
(* two accesses of one call any access of another call may fall.  A read   *)
(* that races with a write returns the value before or after the write,    *)
(* which the interleaving of the steps covers.                             *)

Goroutines == 1..MaxGoroutines

IdleThread ==
    [pc |-> "idle", tool |-> "none",
     seen |-> NilDB,       \* the value of db the nil test read
     used |-> NilDB,       \* the value of db the query was sent to
     database |-> NilDB,   \* Connect's local: the handle it opened
     isError |-> FALSE]

ConcInit ==
    /\ pc = "serving"
    /\ exit = "none"
    /\ db \in {NilDB, 1}       \* served without -dsn, or after the startup connect
    /\ opened = db
    /\ lastGood = db
    /\ call = NoCall
    /\ outcome = NoOutcome
    /\ issued = <<>>
    /\ upd = NoUpdate
    /\ fs = [exe |-> OldExecutable, new |-> Absent]
    /\ threads = [g \in Goroutines |-> IdleThread]

concFrame == <<pc, exit, call, outcome, issued, upd, fs>>

\* the transport hands a request to a goroutine, which enters the handler
Dispatch ==
    \E g \in Goroutines, tool \in ReadsDb \cup {"connect"} :
        /\ threads[g].pc = "idle"
        /\ threads' = [threads EXCEPT ![g] =
                [IdleThread EXCEPT !.tool = tool,
                                   !.pc = IF tool = "connect" THEN "open" ELSE "check"]]
        /\ UNCHANGED <<concFrame, db, opened, lastGood>>

\* "if db == nil" of ListDatabases, ListTables, DescribeTable and ExecuteQuery
CheckHandle ==
    \E g \in Goroutines :
        /\ threads[g].pc = "check"
        /\ threads' = [threads EXCEPT ![g].seen = db,
                                      ![g].isError = (db = NilDB),
                                      ![g].pc = IF db = NilDB THEN "done" ELSE "query"]
        /\ UNCHANGED <<concFrame, db, opened, lastGood>>

\* "db.QueryContext(...)" / "db.ExecContext(...)": db is read again and the
\* operation sent to the handle it holds now
RunQuery ==
    \E g \in Goroutines, err \in {""} \cup DriverErrors :
        /\ threads[g].pc = "query"
        /\ threads' = [threads EXCEPT ![g].used = db,
                                      ![g].isError = (err # ""),
                                      ![g].pc = "done"]
        /\ UNCHANGED <<concFrame, db, opened, lastGood>>

\* Connect up to the Ping: sql.Open and database.Ping()
OpenAndPing ==
    \E g \in Goroutines, dsn \in DSNs, pingErr \in {""} \cup DriverErrors :
        /\ threads[g].pc = "open"
        /\ opened < MaxOpen
        /\ IF OpenFails(dsn)
           THEN /\ threads' = [threads EXCEPT ![g].isError = TRUE, ![g].pc = "done"]
                /\ UNCHANGED opened
           ELSE /\ opened' = opened + 1
                /\ threads' = [threads EXCEPT
                        ![g].database = opened + 1,
                        ![g].isError = (pingErr # ""),
                        ![g].pc = IF pingErr # "" THEN "done" ELSE "store"]
        /\ UNCHANGED <<concFrame, db, lastGood>>

\* "db = database" of Connect
StoreHandle ==
    \E g \in Goroutines :
        /\ threads[g].pc = "store"
        /\ db' = threads[g].database
        /\ lastGood' = threads[g].database
        /\ threads' = [threads EXCEPT ![g].pc = "done"]
        /\ UNCHANGED <<concFrame, opened>>

\* the handler returns and the goroutine ends
Return ==
    \E g \in Goroutines :
        /\ threads[g].pc = "done"
        /\ threads' = [threads EXCEPT ![g] = IdleThread]
        /\ UNCHANGED <<concFrame, db, opened, lastGood>>

ConcNext ==
    \/ Dispatch
    \/ CheckHandle
    \/ RunQuery
    \/ OpenAndPing
    \/ StoreHandle
    \/ Return

ConcSpec == ConcInit /\ [][ConcNext]_vars

\* The next step of goroutine g reads db / writes db.
ReadsHandle(g) == threads[g].pc \in {"check", "query"}
WritesHandle(g) == threads[g].pc = "store"

\* Two goroutines whose next steps both access db, one of them writing, with nothing
\* that orders the two steps.
RacePair ==
    \E g, h \in Goroutines :
        g # h /\ WritesHandle(g) /\ (ReadsHandle(h) \/ WritesHandle(h))

\* C11: under concurrent dispatch every access to the connection handle is
\* serialised: no goroutine is about to replace db while another is about to read
\* or replace it, in particular not while another call is between its test of db and
\* its query, and every call sends its query to the handle its test read.
C11_HandleGuarded ==
    /\ ~RacePair
    /\ \A g \in Goroutines :
            threads[g].used # NilDB => threads[g].used = threads[g].seen

====
